---- MODULE Spec2Model ----
(***************************************************************************)
(* Model of src/index.ts: a single-shot command line tool that prints,     *)
(* creates and closes token accounts and performs one swap.                *)
(*                                                                         *)
(* One run of the process is one behaviour.  pc is the position of the     *)
(* single thread of control; every await on the chain client, the routing  *)
(* engine or the file system is a step of its own whose result is drawn    *)
(* from a small set (the value returned, or a thrown error).               *)
(***************************************************************************)
EXTENDS Integers, Sequences, FiniteSets

(* ------------------------------ bounds ---------------------------------- *)

\* most token accounts getParsedTokenAccountsByOwner returns for the user
MaxUserTokenAccounts == 2

\* most token accounts getParsedTokenAccountsByOwner returns for the collector
MaxCollectorTokenAccounts == 1

(* ------------------------- program constants ---------------------------- *)

MINT_SOL == "So11111111111111111111111111111111111111112"

MINT_USDC == "EPjFWdd5AufqSSqeM2qN1xzybapC8G4wEGGkZwyTDt1v"

\* info.sol.user / info.sol.collector (the two key pairs, by identity)
KEYPAIR_USER == "user"

KEYPAIR_COLLECTOR == "collector"

\* the flat per-signature fee estimate of accountsClose
FEE_PER_SIGNER == 5000

\* the literal the JavaScript runtime passes for an absent value
undefined == "undefined"

\* account === null of getAccountInfo
null == "null"

(* --------------------------- input domains ------------------------------ *)

\* values the user's native balance takes in the startup snapshot (lamports)
SnapshotBalances == {0, 7, 2000000000}

\* values getBalance returns in accountsClose (lamports)
NativeBalances == {0, 3000, 10000}

\* values a token balance takes in the model (smallest units)
TokenAmounts == {0, 500}

\* --receiver values: absent, not a well-formed address, well-formed
Receivers == {undefined, "not-an-address", "Recv1111111111111111111111111111111111111111"}

\* command words on the command line: the four commands, a word that is no
\* command, a word that names a property every JavaScript object inherits,
\* and no word at all
CommandWords ==
    {"accounts-print", "accounts-create", "accounts-close", "swap",
     "bogus", "toString", undefined}

\* parsed command lines: receiver is an option of accounts-close only
ArgvSet ==
    { a \in [cmd : CommandWords, receiver : Receivers] :
        a.cmd # "accounts-close" => a.receiver = undefined }

VARIABLES
    pc,          \* position of the thread of control
    argv,        \* parsed command line: [cmd, receiver]
    exitCode,    \* << >> while running, then << status of process.exit >>
    error,       \* the error thrown and not yet caught, or undefined
    ioCount,     \* file reads and network calls performed so far
    info,        \* ScriptInfo.balances snapshot (user sol, user usdc) or null
    tx,          \* instructions of the Transaction being built
    signers,     \* accountsClose: the Set of signers
    loopIdx,     \* index of the current iteration of the handler's loop
    accIdx,      \* accountsClose: index into response.value
    response,    \* accountsClose: response.value of the enumeration, per owner
    balanceRead, \* accountsClose: value getBalance returned, per owner
    existing,    \* accountsCreate: addresses getAccountInfo found on chain
    account,     \* accountsCreate: result of the pending getAccountInfo
    routeCalls,  \* swap: the arguments of the calls of jupiter.computeRoutes
    exchange,    \* swap: the named transactions present in exchange.transactions
    sendCalls,   \* calls of connection.sendTransaction, in order
    confirmed    \* indices of sendCalls whose confirmTransaction returned

vars ==
    << pc, argv, exitCode, error, ioCount, info, tx, signers, loopIdx, accIdx,
       response, balanceRead, existing, account, routeCalls, exchange, sendCalls,
       confirmed >>

(* ------------------------------ helpers --------------------------------- *)

\* spl.getAssociatedTokenAddress(mint, owner): a deterministic function of
\* the pair, injective on it
getAssociatedTokenAddress(mint, owner) == << "ata", mint, owner >>

\* new PublicKey(value) throws unless value decodes to a 32 byte key
IsWellFormedAddress(value) ==
    value \notin {undefined, "not-an-address"}

\* the handler table of main, looked up by the command word.  A plain object
\* literal also answers for the property names it inherits, so "toString"
\* yields a function that is none of the four handlers.
HandlerTable(word) ==
    CASE word = "accounts-print"  -> "accountsPrint"
      [] word = "accounts-create" -> "accountsCreate"
      [] word = "accounts-close"  -> "accountsClose"
      [] word = "swap"            -> "swap"
      [] word = "toString"        -> "Object.prototype.toString"
      [] OTHER                    -> undefined

\* the outcome of an awaited external call: it returns or it throws
Outcomes == {"ok", "throw"}

\* control after an awaited call: on to next, or to the catch of main
Throw(msg) ==
    /\ pc' = "catch"
    /\ error' = msg

Return(next) ==
    /\ pc' = next
    /\ error' = error

(* ------------------------------- main ----------------------------------- *)

Init ==
    /\ pc = "getArgs"
    /\ argv \in ArgvSet
    /\ exitCode = << >>
    /\ error = undefined
    /\ ioCount = 0
    /\ info = null
    /\ tx = << >>
    /\ signers = {}
    /\ loopIdx = 1
    /\ accIdx = 1
    /\ response = [o \in {KEYPAIR_USER, KEYPAIR_COLLECTOR} |-> << >>]
    /\ balanceRead = [o \in {KEYPAIR_USER, KEYPAIR_COLLECTOR} |-> null]
    /\ existing = {}
    /\ account = undefined
    /\ routeCalls = << >>
    /\ exchange = {}
    /\ sendCalls = << >>
    /\ confirmed = {}

\* yargs: accounts-close demands --receiver; a failed demand makes yargs
\* print the usage and exit with status 1 inside getArgs
GetArgs ==
    /\ pc = "getArgs"
    /\ IF argv.cmd = "accounts-close" /\ argv.receiver = undefined
         THEN /\ pc' = "exited"
              /\ exitCode' = << 1 >>
         ELSE /\ pc' = "dispatch"
              /\ exitCode' = exitCode
    /\ UNCHANGED << argv, error, ioCount, info, tx, signers, loopIdx, accIdx,
                    response, balanceRead, existing, account, routeCalls, exchange,
                    sendCalls, confirmed >>

\* main: look the handler up, throw when there is none
Dispatch ==
    /\ pc = "dispatch"
    /\ IF HandlerTable(argv.cmd) = undefined
         THEN Throw("Unknown command")
         ELSE Return("loadKeypair")
    /\ UNCHANGED << argv, exitCode, ioCount, info, tx, signers, loopIdx, accIdx,
                    response, balanceRead, existing, account, routeCalls, exchange,
                    sendCalls, confirmed >>

\* loadScriptInfo: both key files are read
LoadKeypair ==
    /\ pc = "loadKeypair"
    /\ ioCount' = ioCount + 2
    /\ \E r \in Outcomes :
         IF r = "throw" THEN Throw("key file") ELSE Return("loadBalances")
    /\ UNCHANGED << argv, exitCode, info, tx, signers, loopIdx, accIdx,
                    response, balanceRead, existing, account, routeCalls, exchange,
                    sendCalls, confirmed >>

\* loadScriptInfo: two getBalance and four getTokenBalance calls fill the
\* snapshot; the handlers read the user's native and stable balance of it
LoadBalances ==
    /\ pc = "loadBalances"
    /\ ioCount' = ioCount + 6
    /\ \E r \in Outcomes :
         IF r = "throw"
           THEN /\ Throw("rpc")
                /\ info' = info
           ELSE /\ Return("loadJupiter")
                /\ \E s \in SnapshotBalances, u \in TokenAmounts :
                     info' = [balances |-> [sol |-> [user |-> s], usdc |-> [user |-> u]]]
    /\ UNCHANGED << argv, exitCode, tx, signers, loopIdx, accIdx,
                    response, balanceRead, existing, account, routeCalls, exchange,
                    sendCalls, confirmed >>

\* loadScriptInfo: getPlatformFeeAccounts and Jupiter.load, then main calls
\* the handler
LoadJupiter ==
    /\ pc = "loadJupiter"
    /\ ioCount' = ioCount + 2
    /\ \E r \in Outcomes :
         IF r = "throw" THEN Throw("jupiter") ELSE Return(HandlerTable(argv.cmd))
    /\ UNCHANGED << argv, exitCode, info, tx, signers, loopIdx, accIdx,
                    response, balanceRead, existing, account, routeCalls, exchange,
                    sendCalls, confirmed >>

\* handler(args, info) where handler is the inherited toString: it returns
InheritedHandler ==
    /\ pc = "Object.prototype.toString"
    /\ Return("exit")
    /\ UNCHANGED << argv, exitCode, ioCount, info, tx, signers, loopIdx, accIdx,
                    response, balanceRead, existing, account, routeCalls, exchange,
                    sendCalls, confirmed >>

\* accountsPrint: formats the snapshot and prints it
AccountsPrint ==
    /\ pc = "accountsPrint"
    /\ Return("exit")
    /\ UNCHANGED << argv, exitCode, ioCount, info, tx, signers, loopIdx, accIdx,
                    response, balanceRead, existing, account, routeCalls, exchange,
                    sendCalls, confirmed >>

\* main: process.exit(0) after the handler returned
Exit ==
    /\ pc = "exit"
    /\ pc' = "exited"
    /\ exitCode' = << 0 >>
    /\ UNCHANGED << argv, error, ioCount, info, tx, signers, loopIdx, accIdx,
                    response, balanceRead, existing, account, routeCalls, exchange,
                    sendCalls, confirmed >>

\* main().catch: log the error, process.exit(1)
Catch ==
    /\ pc = "catch"
    /\ pc' = "exited"
    /\ exitCode' = << 1 >>
    /\ UNCHANGED << argv, error, ioCount, info, tx, signers, loopIdx, accIdx,
                    response, balanceRead, existing, account, routeCalls, exchange,
                    sendCalls, confirmed >>

\* connection.sendTransaction(tx, signers, ...): the call is made, then it
\* returns a transaction id or throws
SendTransaction(call, next) ==
    /\ sendCalls' = Append(sendCalls, call)
    /\ ioCount' = ioCount + 1
    /\ \E r \in Outcomes :
         IF r = "throw" THEN Throw("send") ELSE Return(next)

\* connection.confirmTransaction(txid) of the last call sent
ConfirmTransaction(next) ==
    /\ ioCount' = ioCount + 1
    /\ \E r \in Outcomes :
         IF r = "throw"
           THEN /\ Throw("confirm")
                /\ confirmed' = confirmed
           ELSE /\ Return(next)
                /\ confirmed' = confirmed \cup {Len(sendCalls)}

(* -------------------------- accounts-create ----------------------------- *)

\* the nested loops of accountsCreate, flattened in iteration order
CreateOrder ==
    << [owner |-> KEYPAIR_USER,      mint |-> MINT_SOL],
       [owner |-> KEYPAIR_USER,      mint |-> MINT_USDC],
       [owner |-> KEYPAIR_COLLECTOR, mint |-> MINT_SOL],
       [owner |-> KEYPAIR_COLLECTOR, mint |-> MINT_USDC] >>

createAssociatedTokenAccountInstruction(payer, address, owner, mint) ==
    [kind |-> "createAssociatedTokenAccount", payer |-> payer,
     address |-> address, owner |-> owner, mint |-> mint]

\* a creator that adds the instruction for the accounts that exist
ShouldCreate_Inverted(acc) == acc # null

\* the guard of the append in accountsCreate
ShouldCreate(acc) == acc = null

\* the guard of the submission in accountsCreate and accountsClose
NothingToSend(t) == Len(t) = 0

\* await info.connection.getAccountInfo(address)
CreateGetAccountInfo ==
    /\ pc = "accountsCreate"
    /\ loopIdx <= Len(CreateOrder)
    /\ ioCount' = ioCount + 1
    /\ \E r \in Outcomes :
         IF r = "throw"
           THEN /\ Throw("rpc")
                /\ UNCHANGED << account, existing >>
           ELSE /\ Return("createAdd")
                /\ \E found \in BOOLEAN :
                     LET p == CreateOrder[loopIdx]
                         address == getAssociatedTokenAddress(p.mint, p.owner)
                     IN  IF found
                           THEN /\ account' = address
                                /\ existing' = existing \cup {address}
                           ELSE /\ account' = null
                                /\ existing' = existing
    /\ UNCHANGED << argv, exitCode, info, tx, signers, loopIdx, accIdx,
                    response, balanceRead, routeCalls, exchange, sendCalls, confirmed >>

\* if (account === null) tx.add(create instruction); next iteration
CreateAdd ==
    /\ pc = "createAdd"
    /\ LET p == CreateOrder[loopIdx]
           address == getAssociatedTokenAddress(p.mint, p.owner)
       IN  tx' = IF ShouldCreate(account)
                   THEN Append(tx, createAssociatedTokenAccountInstruction(
                                       KEYPAIR_USER, address, p.owner, p.mint))
                   ELSE tx
    /\ loopIdx' = loopIdx + 1
    /\ account' = undefined
    /\ Return("accountsCreate")
    /\ UNCHANGED << argv, exitCode, ioCount, info, signers, accIdx,
                    response, balanceRead, existing, routeCalls, exchange, sendCalls,
                    confirmed >>

\* after the loops: nothing to create, or send with the user as signer
CreateSubmit ==
    /\ pc = "accountsCreate"
    /\ loopIdx > Len(CreateOrder)
    /\ IF NothingToSend(tx)
         THEN /\ Return("exit")
              /\ UNCHANGED << sendCalls, ioCount >>
         ELSE SendTransaction(
                  [command |-> "accounts-create", feePayer |-> KEYPAIR_USER,
                   instructions |-> tx, signers |-> {KEYPAIR_USER}],
                  "createConfirm")
    /\ UNCHANGED << argv, exitCode, info, tx, signers, loopIdx, accIdx,
                    response, balanceRead, existing, account, routeCalls, exchange,
                    confirmed >>

CreateConfirm ==
    /\ pc = "createConfirm"
    /\ ConfirmTransaction("exit")
    /\ UNCHANGED << argv, exitCode, info, tx, signers, loopIdx, accIdx,
                    response, balanceRead, existing, account, routeCalls, exchange,
                    sendCalls >>

(* --------------------------- accounts-close ----------------------------- *)

\* for (const owner of [info.sol.collector, info.sol.user])
CloseOrder == << KEYPAIR_COLLECTOR, KEYPAIR_USER >>

\* response.value of getParsedTokenAccountsByOwner(owner): token accounts
\* with distinct addresses, any mint, any amount
TokenAccountLists(owner) ==
    UNION { { s \in [1..n -> [pubkey : {owner} \X (1..n),
                              mint : {MINT_SOL, MINT_USDC},
                              amount : TokenAmounts]] :
                \A i \in 1..n : s[i].pubkey = << owner, i >> } :
            n \in 0..(IF owner = KEYPAIR_USER
                         THEN MaxUserTokenAccounts
                         ELSE MaxCollectorTokenAccounts) }

createTransferInstruction(source, destination, owner, amount) ==
    [kind |-> "tokenTransfer", source |-> source, destination |-> destination,
     owner |-> owner, amount |-> amount]

createCloseAccountInstruction(acc, destination, authority) ==
    [kind |-> "closeAccount", account |-> acc, destination |-> destination,
     authority |-> authority]

SystemProgramTransfer(fromPubkey, lamports, toPubkey) ==
    [kind |-> "systemTransfer", fromPubkey |-> fromPubkey,
     lamports |-> lamports, toPubkey |-> toPubkey]

\* a closer that forgets the mint test
NeedsTokenTransfer_AnyMint(mint, amount) == amount > 0

\* the guard of the token transfer: amount > 0 && !mint.equals(MINT_SOL)
NeedsTokenTransfer(mint, amount) == amount > 0 /\ mint # MINT_SOL

\* the guard of the native transfer: balance > 0
NeedsNativeTransfer(balance) == balance > 0

\* a closer that deducts the fee estimate whoever the owner is
SweepLamports_AnyOwner(owner, balance, signerSet) ==
    balance - Cardinality(signerSet) * FEE_PER_SIGNER

\* the lamports of the native transfer: the balance, less the fee estimate
\* when the owner is the user
SweepLamports(owner, balance, signerSet) ==
    IF owner = KEYPAIR_USER
      THEN balance - Cardinality(signerSet) * FEE_PER_SIGNER
      ELSE balance

\* const receiver = new PublicKey(argv.receiver)
CloseParseReceiver ==
    /\ pc = "accountsClose"
    /\ IF IsWellFormedAddress(argv.receiver)
         THEN Return("closeEnumerate")
         ELSE Throw("Invalid public key input")
    /\ UNCHANGED << argv, exitCode, ioCount, info, tx, signers, loopIdx, accIdx,
                    response, balanceRead, existing, account, routeCalls, exchange,
                    sendCalls, confirmed >>

\* await getParsedTokenAccountsByOwner(owner.publicKey, ...)
CloseEnumerate ==
    /\ pc = "closeEnumerate"
    /\ loopIdx <= Len(CloseOrder)
    /\ ioCount' = ioCount + 1
    /\ \E r \in Outcomes :
         IF r = "throw"
           THEN /\ Throw("rpc")
                /\ response' = response
           ELSE /\ Return("closeAccount")
                /\ \E value \in TokenAccountLists(CloseOrder[loopIdx]) :
                     response' = [response EXCEPT ![CloseOrder[loopIdx]] = value]
    /\ accIdx' = 1
    /\ UNCHANGED << argv, exitCode, info, tx, signers, loopIdx,
                    balanceRead, existing, account, routeCalls, exchange, sendCalls,
                    confirmed >>

\* one iteration of the loop over response.value
CloseAccount ==
    /\ pc = "closeAccount"
    /\ accIdx <= Len(response[CloseOrder[loopIdx]])
    /\ LET owner == CloseOrder[loopIdx]
           acc == response[owner][accIdx]
           withTransfer ==
               IF NeedsTokenTransfer(acc.mint, acc.amount)
                 THEN Append(tx, createTransferInstruction(
                                     acc.pubkey,
                                     getAssociatedTokenAddress(acc.mint, argv.receiver),
                                     owner, acc.amount))
                 ELSE tx
       IN  /\ tx' = Append(withTransfer,
                           createCloseAccountInstruction(acc.pubkey, argv.receiver, owner))
           /\ signers' = signers \cup {owner}
    /\ accIdx' = accIdx + 1
    /\ Return("closeAccount")
    /\ UNCHANGED << argv, exitCode, ioCount, info, loopIdx, response,
                    balanceRead, existing, account, routeCalls, exchange, sendCalls,
                    confirmed >>

\* let balance = await info.connection.getBalance(owner.publicKey)
CloseGetBalance ==
    /\ pc = "closeAccount"
    /\ accIdx > Len(response[CloseOrder[loopIdx]])
    /\ ioCount' = ioCount + 1
    /\ \E r \in Outcomes :
         IF r = "throw"
           THEN /\ Throw("rpc")
                /\ balanceRead' = balanceRead
           ELSE /\ Return("closeNative")
                /\ \E b \in NativeBalances :
                     balanceRead' = [balanceRead EXCEPT ![CloseOrder[loopIdx]] = b]
    /\ UNCHANGED << argv, exitCode, info, tx, signers, loopIdx, accIdx,
                    response, existing, account, routeCalls, exchange, sendCalls,
                    confirmed >>

\* if (balance > 0) { deduct for the user; add the transfer; add the signer }
CloseNative ==
    /\ pc = "closeNative"
    /\ LET owner == CloseOrder[loopIdx]
           balance == balanceRead[owner]
       IN  IF NeedsNativeTransfer(balance)
             THEN /\ tx' = Append(tx, SystemProgramTransfer(
                                          owner,
                                          SweepLamports(owner, balance, signers),
                                          argv.receiver))
                  /\ signers' = signers \cup {owner}
             ELSE UNCHANGED << tx, signers >>
    /\ loopIdx' = loopIdx + 1
    /\ Return("closeEnumerate")
    /\ UNCHANGED << argv, exitCode, ioCount, info, accIdx, response,
                    balanceRead, existing, account, routeCalls, exchange, sendCalls,
                    confirmed >>

\* after the loop: nothing to close, or send with Array.from(signers)
CloseSubmit ==
    /\ pc = "closeEnumerate"
    /\ loopIdx > Len(CloseOrder)
    /\ IF NothingToSend(tx)
         THEN /\ Return("exit")
              /\ UNCHANGED << sendCalls, ioCount >>
         ELSE SendTransaction(
                  [command |-> "accounts-close", feePayer |-> KEYPAIR_USER,
                   instructions |-> tx, signers |-> signers],
                  "closeConfirm")
    /\ UNCHANGED << argv, exitCode, info, tx, signers, loopIdx, accIdx,
                    response, balanceRead, existing, account, routeCalls, exchange,
                    confirmed >>

CloseConfirm ==
    /\ pc = "closeConfirm"
    /\ ConfirmTransaction("exit")
    /\ UNCHANGED << argv, exitCode, info, tx, signers, loopIdx, accIdx,
                    response, balanceRead, existing, account, routeCalls, exchange,
                    sendCalls >>

(* -------------------------------- swap ---------------------------------- *)

\* a swapper that sends the swap before the setup
SwapSteps_SwapFirst ==
    << "swapTransaction", "setupTransaction", "cleanupTransaction" >>

\* the loop of swap over the named transactions of the exchange result
SwapSteps == << "setupTransaction", "swapTransaction", "cleanupTransaction" >>

\* Math.floor(balance * 0.8): the double product of an integer below 2^50
\* and 0.8 lies within 1/8 of the exact value and never below it, so its
\* floor is the integer floor of 4 * balance / 5 (computed so that no
\* intermediate value exceeds the balance)
Floor80(balance) == (balance \div 5) * 4 + ((balance % 5) * 4) \div 5

\* a swapper that spends 90% of the native balance, as its help text says
SwapOpts_NinetyPercent(balances) ==
    IF balances.usdc.user = 0
      THEN [inputMint |-> MINT_SOL, outputMint |-> MINT_USDC,
            inputAmount |-> (balances.sol.user \div 10) * 9
                              + ((balances.sol.user % 10) * 9) \div 10,
            slippage |-> 1, onlyDirectRoutes |-> TRUE]
      ELSE [inputMint |-> MINT_USDC, outputMint |-> MINT_SOL,
            inputAmount |-> balances.usdc.user,
            slippage |-> 1, onlyDirectRoutes |-> TRUE]

\* a swapper that tests the stable balance the wrong way round
SwapOpts_Flipped(balances) ==
    IF balances.usdc.user # 0
      THEN [inputMint |-> MINT_SOL, outputMint |-> MINT_USDC,
            inputAmount |-> Floor80(balances.sol.user),
            slippage |-> 1, onlyDirectRoutes |-> TRUE]
      ELSE [inputMint |-> MINT_USDC, outputMint |-> MINT_SOL,
            inputAmount |-> balances.usdc.user,
            slippage |-> 1, onlyDirectRoutes |-> TRUE]

\* the argument of computeRoutes, from the snapshot
SwapOpts(balances) ==
    IF balances.usdc.user = 0
      THEN [inputMint |-> MINT_SOL, outputMint |-> MINT_USDC,
            inputAmount |-> Floor80(balances.sol.user),
            slippage |-> 1, onlyDirectRoutes |-> TRUE]
      ELSE [inputMint |-> MINT_USDC, outputMint |-> MINT_SOL,
            inputAmount |-> balances.usdc.user,
            slippage |-> 1, onlyDirectRoutes |-> TRUE]

\* await info.jupiter.computeRoutes(opts)
SwapComputeRoutes ==
    /\ pc = "swap"
    /\ routeCalls' = Append(routeCalls, SwapOpts(info.balances))
    /\ ioCount' = ioCount + 1
    /\ \E r \in Outcomes :
         IF r = "throw" THEN Throw("routes") ELSE Return("swapExchange")
    /\ UNCHANGED << argv, exitCode, info, tx, signers, loopIdx, accIdx,
                    response, balanceRead, existing, account, exchange,
                    sendCalls, confirmed >>

\* await info.jupiter.exchange({ routeInfo }): any of the three named
\* transactions may be absent
SwapExchange ==
    /\ pc = "swapExchange"
    /\ ioCount' = ioCount + 1
    /\ \E r \in Outcomes :
         IF r = "throw"
           THEN /\ Throw("exchange")
                /\ exchange' = exchange
           ELSE /\ Return("swapStep")
                /\ \E present \in SUBSET {SwapSteps[i] : i \in 1..Len(SwapSteps)} :
                     exchange' = present
    /\ UNCHANGED << argv, exitCode, info, tx, signers, loopIdx, accIdx,
                    response, balanceRead, existing, account, routeCalls,
                    sendCalls, confirmed >>

\* if (tx) is false: the step is skipped
SwapSkip ==
    /\ pc = "swapStep"
    /\ loopIdx <= Len(SwapSteps)
    /\ SwapSteps[loopIdx] \notin exchange
    /\ loopIdx' = loopIdx + 1
    /\ Return("swapStep")
    /\ UNCHANGED << argv, exitCode, ioCount, info, tx, signers, accIdx,
                    response, balanceRead, existing, account, routeCalls, exchange,
                    sendCalls, confirmed >>

\* await sendTransaction(tx, [info.sol.user], ...)
SwapSend ==
    /\ pc = "swapStep"
    /\ loopIdx <= Len(SwapSteps)
    /\ SwapSteps[loopIdx] \in exchange
    /\ SendTransaction(
           [command |-> "swap", step |-> SwapSteps[loopIdx],
            signers |-> {KEYPAIR_USER}],
           "swapConfirm")
    /\ UNCHANGED << argv, exitCode, info, tx, signers, loopIdx, accIdx,
                    response, balanceRead, existing, account, routeCalls, exchange,
                    confirmed >>

\* await confirmTransaction(txid); next step
SwapConfirm ==
    /\ pc = "swapConfirm"
    /\ ConfirmTransaction("swapStep")
    /\ loopIdx' = IF error' = undefined THEN loopIdx + 1 ELSE loopIdx
    /\ UNCHANGED << argv, exitCode, info, tx, signers, accIdx,
                    response, balanceRead, existing, account, routeCalls, exchange,
                    sendCalls >>

\* the loop is over: swap returns
SwapReturn ==
    /\ pc = "swapStep"
    /\ loopIdx > Len(SwapSteps)
    /\ Return("exit")
    /\ UNCHANGED << argv, exitCode, ioCount, info, tx, signers, loopIdx, accIdx,
                    response, balanceRead, existing, account, routeCalls, exchange,
                    sendCalls, confirmed >>

(* --------------------------- specification ------------------------------ *)

Next ==
    \/ GetArgs
    \/ Dispatch
    \/ LoadKeypair
    \/ LoadBalances
    \/ LoadJupiter
    \/ InheritedHandler
    \/ AccountsPrint
    \/ Exit
    \/ Catch
    \/ CreateGetAccountInfo
    \/ CreateAdd
    \/ CreateSubmit
    \/ CreateConfirm
    \/ CloseParseReceiver
    \/ CloseEnumerate
    \/ CloseAccount
    \/ CloseGetBalance
    \/ CloseNative
    \/ CloseSubmit
    \/ CloseConfirm
    \/ SwapComputeRoutes
    \/ SwapExchange
    \/ SwapSkip
    \/ SwapSend
    \/ SwapConfirm
    \/ SwapReturn

Spec == Init /\ [][Next]_vars


(* ------------------------------ properties ------------------------------ *)

\* the instructions of tx at positions satisfying a test
Positions(t, Test(_)) == { j \in 1..Len(t) : Test(t[j]) }

IsSystemTransfer(ix) == ix.kind = "systemTransfer"

IsTokenTransfer(ix) == ix.kind = "tokenTransfer"

IsClose(ix) == ix.kind = "closeAccount"

CloseLoopDone == argv.cmd = "accounts-close" /\ loopIdx > 2

Owners == {KEYPAIR_COLLECTOR, KEYPAIR_USER}

\* C1: accounts-close appends no native transfer whose amount after the fee
\* deduction is zero or negative: every native transfer instruction of the
\* transaction being built carries an amount strictly greater than zero.
C1_NativeTransfersPositive ==
    \A j \in Positions(tx, IsSystemTransfer) : tx[j].lamports > 0

\* C2: when the balance read for a party is nonzero, the native step appends
\* one native transfer from that party to the receiver whose amount is
\* balance - (signers recorded so far) * 5000 for the user and the full
\* balance for the collector.
C2_SweepAmountStep ==
    (pc = "closeNative" /\ balanceRead[CloseOrder[loopIdx]] # 0) =>
        LET owner == CloseOrder[loopIdx]
            expected == IF owner = "user"
                          THEN balanceRead[owner] - Cardinality(signers) * 5000
                          ELSE balanceRead[owner]
        IN  /\ Len(tx') = Len(tx) + 1
            /\ \A j \in 1..Len(tx) : tx'[j] = tx[j]
            /\ tx'[Len(tx')].kind = "systemTransfer"
            /\ tx'[Len(tx')].fromPubkey = owner
            /\ tx'[Len(tx')].toPubkey = argv.receiver
            /\ tx'[Len(tx')].lamports = expected

C2_SweepAmount == [][C2_SweepAmountStep]_vars

\* the scenario of C2: the user owns one stable account with balance 500, has
\* native balance 10000 and is the one signer recorded before; the native
\* transfer carries 5000
C2_Witness ==
    /\ CloseLoopDone
    /\ response["collector"] = << >>
    /\ balanceRead["collector"] = 0
    /\ Len(response["user"]) = 1
    /\ response["user"][1].mint = MINT_USDC
    /\ response["user"][1].amount = 500
    /\ balanceRead["user"] = 10000
    /\ Len(tx) = 3
    /\ tx[3].kind = "systemTransfer"
    /\ tx[3].fromPubkey = "user"
    /\ tx[3].lamports = 5000

\* a is the integer floor of 0.8 * x (0 <= a <= x)
IsFloorOfFourFifths(a, x) == (5 * (x - a) - x) \in 0..4

C4_DirectionAsStated ==
    \A k \in 1..Len(routeCalls) :
        IF info.balances.usdc.user = 0
          THEN routeCalls[k].inputMint = MINT_USDC /\ routeCalls[k].outputMint = MINT_SOL
          ELSE routeCalls[k].inputMint = MINT_SOL /\ routeCalls[k].outputMint = MINT_USDC

\* C4 amended: swap selects native -> stable when the user's stable balance
\* is zero and stable -> native when it is nonzero.
C4_Direction ==
    \A k \in 1..Len(routeCalls) :
        /\ (info.balances.usdc.user = 0) <=>
               (routeCalls[k].inputMint = MINT_SOL /\ routeCalls[k].outputMint = MINT_USDC)
        /\ (info.balances.usdc.user # 0) <=>
               (routeCalls[k].inputMint = MINT_USDC /\ routeCalls[k].outputMint = MINT_SOL)

\* a user holding 500 of the stable token is routed stable -> native
C4_Witness ==
    /\ Len(routeCalls) = 1
    /\ info.balances.usdc.user = 500
    /\ routeCalls[1].inputMint = MINT_USDC
    /\ routeCalls[1].outputMint = MINT_SOL

\* the associated accounts accountsCreate has looked at so far
CreateChecked == 1..(IF loopIdx - 1 < 4 THEN loopIdx - 1 ELSE 4)

CreateAddressOf(i) ==
    getAssociatedTokenAddress(CreateOrder[i].mint, CreateOrder[i].owner)

\* C5: accounts-create builds exactly one creation instruction (payer = user)
\* per associated account that is missing and none for one that exists; with
\* all four existing the transaction is empty, nothing is submitted and the
\* command ends successfully; otherwise the transaction is submitted exactly
\* once, with the user as sole signer, and then confirmed.
C5_AccountsCreate ==
    argv.cmd = "accounts-create" =>
        LET missing == { i \in CreateChecked : CreateAddressOf(i) \notin existing }
            done == loopIdx > 4
            submitted == pc \in {"createConfirm", "exit", "exited"} \/ error = "send"
                           \/ error = "confirm"
        IN  /\ Len(tx) = Cardinality(missing)
            /\ \A i \in missing :
                 Cardinality({ j \in 1..Len(tx) :
                     tx[j] = [kind |-> "createAssociatedTokenAccount",
                              payer |-> "user",
                              address |-> CreateAddressOf(i),
                              owner |-> CreateOrder[i].owner,
                              mint |-> CreateOrder[i].mint] }) = 1
            /\ \A j \in 1..Len(tx) : tx[j].address \notin existing
            /\ Len(sendCalls) <= 1
            /\ sendCalls # << >> =>
                 /\ done
                 /\ missing # {}
                 /\ sendCalls[1].instructions = tx
                 /\ sendCalls[1].signers = {"user"}
                 /\ sendCalls[1].feePayer = "user"
            /\ (done /\ missing = {}) =>
                 /\ tx = << >>
                 /\ sendCalls = << >>
                 /\ error = undefined
                 /\ exitCode \in {<< >>, << 0 >>}
            /\ (done /\ missing # {} /\ submitted) => Len(sendCalls) = 1
            /\ (done /\ missing # {} /\ exitCode = << 0 >>) => confirmed = {1}
            /\ confirmed \subseteq 1..Len(sendCalls)

\* two of the four accounts exist, the other two were created and confirmed
C5_Witness ==
    /\ argv.cmd = "accounts-create"
    /\ exitCode = << 0 >>
    /\ Cardinality(existing) = 2
    /\ Len(tx) = 2
    /\ Len(sendCalls) = 1
    /\ confirmed = {1}

\* the command lines C6 calls input errors
InputError ==
    \/ argv.cmd \notin {"accounts-print", "accounts-create", "accounts-close", "swap"}
    \/ /\ argv.cmd = "accounts-close"
       /\ argv.receiver \in {undefined, "not-an-address"}

\* C6: every input error (unknown command, missing command, accounts-close
\* without a receiver or with a receiver that is no well-formed address)
\* aborts the process with an error before any I/O is performed.
C6_InputErrorsBeforeIO ==
    InputError =>
        /\ ioCount = 0
        /\ pc = "exited" => exitCode = << 1 >>

\* the fixed order of the sub-transactions of a swap
StepRank(name) ==
    CASE name = "setupTransaction"   -> 1
      [] name = "swapTransaction"    -> 2
      [] name = "cleanupTransaction" -> 3

StepNames == {"setupTransaction", "swapTransaction", "cleanupTransaction"}

\* every send of a swap: signed by the user alone, of a transaction that is
\* present, later in the fixed order than every send before it, and made
\* only when every present transaction earlier in the order has been sent
\* and confirmed; a swap that ends with status 0 has sent and confirmed every
\* present transaction; a thrown error ends with status 1
C7_SwapOrder ==
    argv.cmd = "swap" =>
        /\ \A k \in 1..Len(sendCalls) :
             /\ sendCalls[k].signers = {"user"}
             /\ sendCalls[k].step \in exchange
             /\ \A h \in 1..(k - 1) :
                  StepRank(sendCalls[h].step) < StepRank(sendCalls[k].step)
             /\ \A name \in exchange :
                  StepRank(name) < StepRank(sendCalls[k].step) =>
                      \E h \in 1..(k - 1) :
                          sendCalls[h].step = name /\ h \in confirmed
        /\ exitCode = << 0 >> =>
             \A name \in exchange :
                 \E h \in confirmed : sendCalls[h].step = name
        /\ (pc = "exited" /\ error # undefined) => exitCode = << 1 >>

\* once an error is thrown nothing more is sent or confirmed, the process
\* goes on to exit with status 1, and what was sent and confirmed stays so
C7_SwapAbortStep ==
    argv.cmd = "swap" =>
        /\ error # undefined =>
             /\ sendCalls' = sendCalls
             /\ confirmed' = confirmed
             /\ error' = error
             /\ pc' = "exited" /\ exitCode' = << 1 >>
        /\ (pc \in {"swapStep", "swapConfirm"} /\ pc' \notin {"swapStep", "swapConfirm", "exit"})
             => (pc' = "catch" /\ error' # undefined)
        /\ Len(sendCalls') >= Len(sendCalls)
        /\ \A k \in 1..Len(sendCalls) : sendCalls'[k] = sendCalls[k]
        /\ confirmed \subseteq confirmed'

\* C7: the present sub-transactions of a swap are submitted in the order
\* setup, swap, cleanup, each with the user as sole signer and only after
\* every earlier present one was submitted and confirmed; absent ones are
\* skipped; once a submission or confirmation fails nothing later is
\* submitted, the process exits with status 1 and the completed prefix is
\* not rolled back.
C7_SwapSequence == []C7_SwapOrder /\ [][C7_SwapAbortStep]_vars

\* setup was sent and confirmed, the swap was sent and its confirmation
\* failed, the cleanup is present and was never sent, the exit status is 1
C7_Witness ==
    /\ argv.cmd = "swap"
    /\ exchange = StepNames
    /\ Len(sendCalls) = 2
    /\ sendCalls[1].step = "setupTransaction"
    /\ sendCalls[2].step = "swapTransaction"
    /\ confirmed = {1}
    /\ error = "confirm"
    /\ exitCode = << 1 >>

\* C8: when accounts-close has gone through both parties (collector first),
\* every enumerated token account has exactly one close instruction, which is
\* immediately preceded by a token transfer if and only if the balance is
\* nonzero and the mint is not the native-wrapped mint, the transfer then
\* moving the full balance to the receiver's associated address; no token
\* transfer is ever appended for a native-wrapped account.
C8_TokenAccounts ==
    argv.cmd = "accounts-close" =>
        /\ \A j \in Positions(tx, IsTokenTransfer) :
             /\ \E i \in 1..Len(response[tx[j].owner]) :
                  /\ response[tx[j].owner][i].pubkey = tx[j].source
                  /\ response[tx[j].owner][i].mint # MINT_SOL
             /\ j < Len(tx)
             /\ tx[j + 1].kind = "closeAccount"
             /\ tx[j + 1].account = tx[j].source
        /\ \A j \in Positions(tx, IsClose), h \in Positions(tx, IsClose) :
             /\ tx[j].account = tx[h].account => j = h
             /\ (tx[j].authority = "user" /\ tx[h].authority = "collector") => h < j
        /\ CloseLoopDone =>
             \A o \in Owners : \A i \in 1..Len(response[o]) :
                 LET acc == response[o][i]
                     closes == { j \in Positions(tx, IsClose) :
                                   tx[j] = [kind |-> "closeAccount",
                                            account |-> acc.pubkey,
                                            destination |-> argv.receiver,
                                            authority |-> o] }
                 IN  /\ Cardinality(closes) = 1
                     /\ \A j \in closes :
                          LET preceded == j > 1 /\ tx[j - 1].kind = "tokenTransfer"
                          IN  /\ preceded <=> (acc.amount # 0 /\ acc.mint # MINT_SOL)
                              /\ preceded =>
                                   tx[j - 1] =
                                       [kind |-> "tokenTransfer",
                                        source |-> acc.pubkey,
                                        destination |-> << "ata", acc.mint, argv.receiver >>,
                                        owner |-> o,
                                        amount |-> acc.amount]

\* the user holds a native-wrapped account and a stable account, both with a
\* balance: the first is only closed, the second is transferred and closed
C8_Witness ==
    /\ CloseLoopDone
    /\ Len(response["user"]) = 2
    /\ response["user"][1].mint = MINT_SOL
    /\ response["user"][1].amount = 500
    /\ response["user"][2].mint = MINT_USDC
    /\ response["user"][2].amount = 500
    /\ Len(response["collector"]) = 1
    /\ Cardinality(Positions(tx, IsClose)) = 3
    /\ Cardinality(Positions(tx, IsTokenTransfer)) = 1

\* C9: in every transaction accounts-close submits, a native transfer from
\* the user plus the fee of the signers submitted (5000 each) does not exceed
\* the native balance read for the user.
C9_SweepLeavesFee ==
    \A k \in 1..Len(sendCalls) :
        sendCalls[k].command = "accounts-close" =>
            \A j \in Positions(sendCalls[k].instructions, IsSystemTransfer) :
                sendCalls[k].instructions[j].fromPubkey = "user" =>
                    sendCalls[k].instructions[j].lamports
                        + 5000 * Cardinality(sendCalls[k].signers)
                      <= balanceRead["user"]

\* C10: in every transaction accounts-close submits, the fee payer (the user)
\* is one of the signers passed to the submission.
C10_FeePayerSigns ==
    \A k \in 1..Len(sendCalls) :
        sendCalls[k].command = "accounts-close" =>
            /\ sendCalls[k].feePayer = "user"
            /\ sendCalls[k].feePayer \in sendCalls[k].signers

====
